---- MODULE Spec2Model ----
(***************************************************************************)
(* A model of src/src/semaphore.rs: a counting semaphore made of a         *)
(* Mutex<isize> counter and a Condvar, and the RAII SemaphoreGuard that    *)
(* releases on drop.  Every program counter value is named after the       *)
(* source line the thread is about to execute ("a41" = line 41 of          *)
(* acquire, "r53" = line 53 of release, ...); inside Condvar::wait of line *)
(* 43 a thread is parked ("a43p") or woken and re-locking ("a43w").        *)
(***************************************************************************)
EXTENDS Integers, FiniteSets, Sequences, TLC

(* ------------------------------ bounds -------------------------------- *)

\* Number of threads sharing the semaphore.
NumThreads == 3

\* Width in bits of the model's isize.  The program's isize is the machine
\* word; the model keeps two's-complement arithmetic at a width TLC can
\* enumerate, so that isize::MAX and isize::MIN are values of the model.
IsizeBits == 3

\* Total number of operations started by the threads: calls of acquire,
\* release and access, guard drops, failures of a protected section.
MaxOps == 4

\* Largest initial count of the specifications that start from N >= 0 and
\* never raise the counter above N.
MaxCount == 2

\* Number of increments the seeding release calls may bring about, in the
\* specification that drives the counter up to isize::MAX.
MaxSeeds == 4

(* ------------------------------ isize --------------------------------- *)

Threads == 1..NumThreads

\* The mutex is unlocked.
NoThread == 0

IsizeMin == -(2^(IsizeBits - 1))

IsizeMax == 2^(IsizeBits - 1) - 1

Isize == IsizeMin..IsizeMax

\* x is not representable: `+=` / `-=` panics when the build checks
\* overflow and wraps when it does not.
Overflows(x) == x < IsizeMin \/ x > IsizeMax

WrapIsize(x) == ((x - IsizeMin) % (2^IsizeBits)) + IsizeMin

(* ------------------------------ state --------------------------------- *)

VARIABLES
  counter,        \* Semaphore.counter: the isize inside the Mutex
  lock,           \* the thread holding the Mutex, or NoThread
  poisoned,       \* the Mutex's poison flag
  waiters,        \* threads parked in Condvar::wait
  pc,             \* per thread: the source line it is about to execute
  acqKind,        \* per thread, inside acquire: "acquire", or "access" when
                  \*   access called it; "none" outside
  relKind,        \* per thread, inside release: "drop" (called by a guard's
                  \*   drop), "unit" (gives back a unit taken by acquire) or
                  \*   "seed" (no prior acquire); "none" outside
  guards,         \* per thread: live SemaphoreGuards it owns
  held,           \* per thread: units taken by acquire() and not yet released
  unwinding,      \* per thread: the thread is panicking (unwinding its stack)
  aborted,        \* a panic during unwinding aborted the process
  n0,             \* the argument of Semaphore::new
  build,          \* what the build does on arithmetic overflow, the same
                  \*   for a whole run: "checked" (panic) or "wrapping";
                  \*   "undetermined" until the first overflow consults it
  calls,          \* history: operations started (see MaxOps)
  nAcq,           \* history: decrements performed by acquire (line 45)
  nRel,           \* history: increments performed by release (line 53)
  parked,         \* history, per thread: its current acquire has parked
  rt,             \* history, per thread: the acquire/release pairs it has run
                  \*   with no other thread changing the counter: NoPair, or
                  \*   [c: the counter before the first acquire, n: pairs
                  \*   completed, open: an acquire awaits its release]
  made,           \* history: SemaphoreGuards constructed (line 64)
  dropped         \* history: SemaphoreGuard::drop calls run (line 72)

sem == <<counter, lock, poisoned, waiters>>

thr == <<pc, acqKind, relKind, guards, held, unwinding>>

env == <<aborted, n0, build>>

hist == <<calls, nAcq, nRel, parked, rt, made, dropped>>

vars == <<counter, lock, poisoned, waiters, pc, acqKind, relKind, guards, held,
          unwinding, aborted, n0, build, calls, nAcq, nRel, parked, rt,
          made, dropped>>

NoPair == [c |-> 0, n |-> 0, open |-> FALSE, live |-> FALSE]

\* Faulty variant of New: the constructor clamps a negative count to 0.
NewClamped(n) ==
  /\ counter = (IF n < 0 THEN 0 ELSE n)
  /\ n0 = n
  /\ lock = NoThread
  /\ poisoned = FALSE
  /\ waiters = {}
  /\ pc = [t \in Threads |-> "idle"]
  /\ acqKind = [t \in Threads |-> "none"]
  /\ relKind = [t \in Threads |-> "none"]
  /\ guards = [t \in Threads |-> 0]
  /\ held = [t \in Threads |-> 0]
  /\ unwinding = [t \in Threads |-> FALSE]
  /\ aborted = FALSE
  /\ build = "undetermined"
  /\ calls = 0
  /\ nAcq = 0
  /\ nRel = 0
  /\ parked = [t \in Threads |-> FALSE]
  /\ rt = [t \in Threads |-> NoPair]
  /\ made = 0
  /\ dropped = 0

\* Semaphore::new(n): counter = n, nobody inside, no validation of n.
New(n) ==
  /\ counter = n
  /\ n0 = n
  /\ lock = NoThread
  /\ poisoned = FALSE
  /\ waiters = {}
  /\ pc = [t \in Threads |-> "idle"]
  /\ acqKind = [t \in Threads |-> "none"]
  /\ relKind = [t \in Threads |-> "none"]
  /\ guards = [t \in Threads |-> 0]
  /\ held = [t \in Threads |-> 0]
  /\ unwinding = [t \in Threads |-> FALSE]
  /\ aborted = FALSE
  /\ build = "undetermined"
  /\ calls = 0
  /\ nAcq = 0
  /\ nRel = 0
  /\ parked = [t \in Threads |-> FALSE]
  /\ rt = [t \in Threads |-> NoPair]
  /\ made = 0
  /\ dropped = 0

Init == \E n \in Isize : New(n)

(* --------------------------- history updates --------------------------- *)

\* Thread t decremented the counter: it opens (or continues) its run of
\* acquire/release pairs; every other thread's run is disturbed.
RtAfterDecrement(t) ==
  [u \in Threads |->
     IF u # t THEN NoPair
     ELSE IF rt[t].live /\ ~rt[t].open THEN [rt[t] EXCEPT !.open = TRUE]
     ELSE [c |-> counter, n |-> 0, open |-> TRUE, live |-> TRUE]]

\* Thread t incremented the counter: it closes its open pair, if any.
RtAfterIncrement(t) ==
  [u \in Threads |->
     IF u = t /\ rt[t].live /\ rt[t].open
       THEN [rt[t] EXCEPT !.open = FALSE, !.n = @ + 1]
     ELSE NoPair]

(* ------------------------------- panics ------------------------------- *)

\* The builds under which the result x of `+= 1` / `-= 1` is computed: an
\* overflow consults the build's overflow checks, which are the same for
\* the whole run; nothing else does.
OverflowBuilds(x) ==
  IF ~Overflows(x) THEN {build}
  ELSE IF build = "undetermined" THEN {"checked", "wrapping"}
  ELSE {build}

\* Thread t panics: it starts unwinding; a panic while it is already
\* unwinding (release called by a guard's drop during unwinding) aborts the
\* process.
Panic(t) ==
  /\ unwinding' = [unwinding EXCEPT ![t] = TRUE]
  /\ pc' = [pc EXCEPT ![t] = "unwind"]
  /\ aborted' = (aborted \/ unwinding[t])

(* ------------------------------ acquire ------------------------------- *)

\* Faulty variant of Decremented: acquire takes two units.
DecrementedByTwo(c) == c - 2

\* Line 45: the value `*count -= 1` computes.
Decremented(c) == c - 1

\* Faulty variant of MustWait: the loop tests `*count < 0`.
MustWaitStrict(c) == c < 0

\* Line 42: the loop condition `*count <= 0`.
MustWait(c) == c <= 0

\* A caller invokes sem.acquire().
CallAcquire(t) ==
  /\ ~aborted /\ pc[t] = "idle" /\ calls < MaxOps
  /\ pc' = [pc EXCEPT ![t] = "a41"]
  /\ acqKind' = [acqKind EXCEPT ![t] = "acquire"]
  /\ parked' = [parked EXCEPT ![t] = FALSE]
  /\ calls' = calls + 1
  /\ UNCHANGED <<sem, relKind, guards, held, unwinding, env, nAcq, nRel, rt, made, dropped>>

\* Faulty variant of CallAccess: access wraps a unit it never acquired.
CallAccessNoAcquire(t) ==
  /\ ~aborted /\ pc[t] = "idle" /\ calls < MaxOps
  /\ guards' = [guards EXCEPT ![t] = @ + 1]
  /\ made' = made + 1
  /\ calls' = calls + 1
  /\ UNCHANGED <<sem, pc, acqKind, relKind, held, unwinding, env, nAcq, nRel,
                 parked, rt, dropped>>

\* Line 63: access() calls self.acquire().
CallAccess(t) ==
  /\ ~aborted /\ pc[t] = "idle" /\ calls < MaxOps
  /\ pc' = [pc EXCEPT ![t] = "a41"]
  /\ acqKind' = [acqKind EXCEPT ![t] = "access"]
  /\ parked' = [parked EXCEPT ![t] = FALSE]
  /\ calls' = calls + 1
  /\ UNCHANGED <<sem, relKind, guards, held, unwinding, env, nAcq, nRel, rt, made, dropped>>

\* Line 41: self.counter.lock().unwrap().  lock() blocks while another
\* thread holds the mutex; on a poisoned mutex it returns Err, unwrap panics
\* and the guard inside the error is dropped.
AcqLock(t) ==
  /\ ~aborted /\ pc[t] = "a41" /\ lock = NoThread
  /\ IF poisoned
       THEN /\ Panic(t)
            /\ UNCHANGED lock
       ELSE /\ lock' = t
            /\ pc' = [pc EXCEPT ![t] = "a42"]
            /\ UNCHANGED <<unwinding, aborted>>
  /\ UNCHANGED <<counter, poisoned, waiters, acqKind, relKind, guards, held,
                 n0, build, hist>>

\* Faulty variant of AcqCheck: a caller that must wait charges the counter
\* before waiting, as in a semaphore whose negative count numbers waiters.
AcqCheckCharges(t) ==
  /\ ~aborted /\ pc[t] = "a42" /\ lock = t
  /\ pc' = [pc EXCEPT ![t] = IF MustWait(counter) THEN "a43" ELSE "a45"]
  /\ counter' = IF MustWait(counter) /\ counter > IsizeMin
                  THEN counter - 1 ELSE counter
  /\ UNCHANGED <<lock, poisoned, waiters, acqKind, relKind, guards, held,
                 unwinding, env, hist>>

\* Line 42: test the loop condition, under the lock.
AcqCheck(t) ==
  /\ ~aborted /\ pc[t] = "a42" /\ lock = t
  /\ pc' = [pc EXCEPT ![t] = IF MustWait(counter) THEN "a43" ELSE "a45"]
  /\ UNCHANGED <<sem, acqKind, relKind, guards, held, unwinding, env, hist>>

\* Faulty variant of AcqWait: the thread parks without giving up the lock.
AcqWaitKeepsLock(t) ==
  /\ ~aborted /\ pc[t] = "a43" /\ lock = t
  /\ waiters' = waiters \cup {t}
  /\ pc' = [pc EXCEPT ![t] = "a43p"]
  /\ parked' = [parked EXCEPT ![t] = TRUE]
  /\ UNCHANGED <<counter, lock, poisoned, acqKind, relKind, guards, held,
                 unwinding, env, calls, nAcq, nRel, rt, made, dropped>>

\* Line 43: condvar.wait(count) unlocks the mutex and parks the thread in
\* one atomic step.
AcqWait(t) ==
  /\ ~aborted /\ pc[t] = "a43" /\ lock = t
  /\ lock' = NoThread
  /\ waiters' = waiters \cup {t}
  /\ pc' = [pc EXCEPT ![t] = "a43p"]
  /\ parked' = [parked EXCEPT ![t] = TRUE]
  /\ UNCHANGED <<counter, poisoned, acqKind, relKind, guards, held, unwinding,
                 env, calls, nAcq, nRel, rt, made, dropped>>

\* Line 43: Condvar::wait may return without a notification.
SpuriousWakeup(t) ==
  /\ ~aborted /\ pc[t] = "a43p" /\ t \in waiters
  /\ waiters' = waiters \ {t}
  /\ pc' = [pc EXCEPT ![t] = "a43w"]
  /\ UNCHANGED <<counter, lock, poisoned, acqKind, relKind, guards, held,
                 unwinding, env, hist>>

\* Faulty variant of AcqRelock: the woken thread takes the lock whatever its
\* poison flag says (`wait(count).unwrap_or_else(|e| e.into_inner())`).
AcqRelockIgnoresPoison(t) ==
  /\ ~aborted /\ pc[t] = "a43w" /\ lock = NoThread
  /\ lock' = t
  /\ pc' = [pc EXCEPT ![t] = "a42"]
  /\ UNCHANGED <<counter, poisoned, waiters, acqKind, relKind, guards, held,
                 unwinding, env, hist>>

\* Faulty variant of AcqRelock: an `if` in place of the `while` of line 42,
\* the woken thread goes on to the decrement without testing the counter.
AcqRelockNoRecheck(t) ==
  /\ ~aborted /\ pc[t] = "a43w" /\ lock = NoThread
  /\ IF poisoned
       THEN /\ Panic(t)
            /\ UNCHANGED lock
       ELSE /\ lock' = t
            /\ pc' = [pc EXCEPT ![t] = "a45"]
            /\ UNCHANGED <<unwinding, aborted>>
  /\ UNCHANGED <<counter, poisoned, waiters, acqKind, relKind, guards, held,
                 n0, build, hist>>

\* Line 43: a woken thread re-locks the mutex before wait returns; wait
\* returns Err on a poisoned mutex and unwrap panics.
AcqRelock(t) ==
  /\ ~aborted /\ pc[t] = "a43w" /\ lock = NoThread
  /\ IF poisoned
       THEN /\ Panic(t)
            /\ UNCHANGED lock
       ELSE /\ lock' = t
            /\ pc' = [pc EXCEPT ![t] = "a42"]
            /\ UNCHANGED <<unwinding, aborted>>
  /\ UNCHANGED <<counter, poisoned, waiters, acqKind, relKind, guards, held,
                 n0, build, hist>>

\* Line 45: *count -= 1.
AcqDecrement(t) ==
  /\ ~aborted /\ pc[t] = "a45" /\ lock = t
  /\ \E b \in OverflowBuilds(Decremented(counter)) :
       /\ build' = b
       /\ IF Overflows(Decremented(counter)) /\ b = "checked"
            THEN /\ Panic(t)
                 /\ poisoned' = TRUE
                 /\ lock' = NoThread
                 /\ UNCHANGED <<counter, nAcq, rt>>
            ELSE /\ counter' = WrapIsize(Decremented(counter))
                 /\ nAcq' = nAcq + 1
                 /\ rt' = RtAfterDecrement(t)
                 /\ pc' = [pc EXCEPT ![t] = "a46"]
                 /\ UNCHANGED <<lock, poisoned, unwinding, aborted>>
  /\ UNCHANGED <<waiters, acqKind, relKind, guards, held, n0,
                 calls, nRel, parked, made, dropped>>

\* Faulty variant of AcqReturn: acquire returns with the mutex still locked
\* (the MutexGuard is leaked instead of dropped).
AcqReturnKeepsLock(t) ==
  /\ ~aborted /\ pc[t] = "a46" /\ lock = t
  /\ pc' = [pc EXCEPT ![t] = "idle"]
  /\ IF acqKind[t] = "access"
       THEN /\ guards' = [guards EXCEPT ![t] = @ + 1]
            /\ made' = made + 1
            /\ UNCHANGED held
       ELSE /\ held' = [held EXCEPT ![t] = @ + 1]
            /\ UNCHANGED <<guards, made>>
  /\ acqKind' = [acqKind EXCEPT ![t] = "none"]
  /\ parked' = [parked EXCEPT ![t] = FALSE]
  /\ UNCHANGED <<counter, lock, poisoned, waiters, relKind, unwinding, env,
                 calls, nAcq, nRel, rt, dropped>>

\* Line 46: acquire returns and the MutexGuard is dropped (unlock).  Called
\* by access (lines 63-64), the unit is wrapped in a SemaphoreGuard.
AcqReturn(t) ==
  /\ ~aborted /\ pc[t] = "a46" /\ lock = t
  /\ lock' = NoThread
  /\ pc' = [pc EXCEPT ![t] = "idle"]
  /\ IF acqKind[t] = "access"
       THEN /\ guards' = [guards EXCEPT ![t] = @ + 1]
            /\ made' = made + 1
            /\ UNCHANGED held
       ELSE /\ held' = [held EXCEPT ![t] = @ + 1]
            /\ UNCHANGED <<guards, made>>
  /\ acqKind' = [acqKind EXCEPT ![t] = "none"]
  /\ parked' = [parked EXCEPT ![t] = FALSE]
  /\ UNCHANGED <<counter, poisoned, waiters, relKind, unwinding, env,
                 calls, nAcq, nRel, rt, dropped>>

(* ------------------------------ release ------------------------------- *)

\* Faulty variant of Incremented: release gives back two units.
IncrementedByTwo(c) == c + 2

\* Line 53: the value `*count += 1` computes.
Incremented(c) == c + 1

\* A caller invokes sem.release(): it gives back a unit it took with
\* acquire, or, holding none, seeds extra capacity.
CallRelease(t) ==
  /\ ~aborted /\ pc[t] = "idle" /\ calls < MaxOps
  /\ pc' = [pc EXCEPT ![t] = "r52"]
  /\ relKind' = [relKind EXCEPT ![t] = IF held[t] > 0 THEN "unit" ELSE "seed"]
  /\ held' = [held EXCEPT ![t] = IF @ > 0 THEN @ - 1 ELSE @]
  /\ calls' = calls + 1
  /\ UNCHANGED <<sem, acqKind, guards, unwinding, env, nAcq, nRel, parked, rt,
                 made, dropped>>

\* Faulty variant of DropGuard: drop does not call release.
DropGuardNoRelease(t) ==
  /\ ~aborted /\ pc[t] = "idle" /\ guards[t] > 0 /\ calls < MaxOps
  /\ guards' = [guards EXCEPT ![t] = @ - 1]
  /\ calls' = calls + 1
  /\ dropped' = dropped + 1
  /\ UNCHANGED <<sem, pc, acqKind, relKind, held, unwinding, env, nAcq, nRel,
                 parked, rt, made>>

\* Lines 70-74: a SemaphoreGuard goes out of scope (or is passed to drop):
\* the guard is gone and drop calls self.sem.release().
DropGuard(t) ==
  /\ ~aborted /\ pc[t] = "idle" /\ guards[t] > 0 /\ calls < MaxOps
  /\ guards' = [guards EXCEPT ![t] = @ - 1]
  /\ pc' = [pc EXCEPT ![t] = "r52"]
  /\ relKind' = [relKind EXCEPT ![t] = "drop"]
  /\ calls' = calls + 1
  /\ dropped' = dropped + 1
  /\ UNCHANGED <<sem, acqKind, held, unwinding, env, nAcq, nRel, parked, rt,
                 made>>

\* Line 52: self.counter.lock().unwrap().
RelLock(t) ==
  /\ ~aborted /\ pc[t] = "r52" /\ lock = NoThread
  /\ IF poisoned
       THEN /\ Panic(t)
            /\ UNCHANGED lock
       ELSE /\ lock' = t
            /\ pc' = [pc EXCEPT ![t] = "r53"]
            /\ UNCHANGED <<unwinding, aborted>>
  /\ UNCHANGED <<counter, poisoned, waiters, acqKind, relKind, guards, held,
                 n0, build, hist>>

\* Line 53: *count += 1.  At isize::MAX the addition overflows: a build
\* with overflow checks panics (the MutexGuard is dropped while panicking,
\* which poisons the mutex), a build without them wraps to isize::MIN.
RelIncrement(t) ==
  /\ ~aborted /\ pc[t] = "r53" /\ lock = t
  /\ \E b \in OverflowBuilds(Incremented(counter)) :
       /\ build' = b
       /\ IF Overflows(Incremented(counter)) /\ b = "checked"
            THEN /\ Panic(t)
                 /\ poisoned' = TRUE
                 /\ lock' = NoThread
                 /\ UNCHANGED <<counter, nRel, rt>>
            ELSE /\ counter' = WrapIsize(Incremented(counter))
                 /\ nRel' = nRel + 1
                 /\ rt' = RtAfterIncrement(t)
                 /\ pc' = [pc EXCEPT ![t] = "r54"]
                 /\ UNCHANGED <<lock, poisoned, unwinding, aborted>>
  /\ UNCHANGED <<waiters, acqKind, relKind, guards, held, n0,
                 calls, nAcq, parked, made, dropped>>

\* Faulty variant of NotifyOne: release forgets the notification.
NotifyNobody(ws) == {{}}

\* Faulty variant of NotifyOne: notify_all.
NotifyAll(ws) == {ws}

\* Variant of NotifyOne with a fixed order: the parked thread of lowest
\* number is always the one woken.
NotifyLowest(ws) ==
  IF ws = {} THEN {{}} ELSE {{CHOOSE w \in ws : \A x \in ws : w <= x}}

\* Faulty variant of NotifyOne: release notifies only when it has made the
\* first unit available (counter went from 0 to 1).
NotifyOnFirstUnit(ws) ==
  IF ws = {} \/ counter # 1 THEN {{}} ELSE {{w} : w \in ws}

\* Line 54: the sets of parked threads notify_one may wake: one of them,
\* whichever the wait queue picks, or nobody when none is parked.
NotifyOne(ws) == IF ws = {} THEN {{}} ELSE {{w} : w \in ws}

\* Line 54: self.condvar.notify_one(), with the mutex still held.
RelNotify(t) ==
  /\ ~aborted /\ pc[t] = "r54" /\ lock = t
  /\ \E W \in NotifyOne(waiters) :
       /\ waiters' = waiters \ W
       /\ pc' = [u \in Threads |->
                   IF u = t THEN "r55" ELSE IF u \in W THEN "a43w" ELSE pc[u]]
  /\ UNCHANGED <<counter, lock, poisoned, acqKind, relKind, guards, held,
                 unwinding, env, hist>>

\* Line 55: release returns and the MutexGuard is dropped (unlock).  A
\* release run by a guard's drop during unwinding returns to the unwinding.
RelReturn(t) ==
  /\ ~aborted /\ pc[t] = "r55" /\ lock = t
  /\ lock' = NoThread
  /\ pc' = [pc EXCEPT ![t] = IF unwinding[t] THEN "unwind" ELSE "idle"]
  /\ relKind' = [relKind EXCEPT ![t] = "none"]
  /\ UNCHANGED <<counter, poisoned, waiters, acqKind, guards, held,
                 unwinding, env, hist>>

(* ------------------------------- guard -------------------------------- *)

\* The code of a protected section fails (panics) while the thread owns a
\* guard: the thread starts unwinding.
CriticalPanic(t) ==
  /\ ~aborted /\ pc[t] = "idle" /\ guards[t] > 0 /\ calls < MaxOps
  /\ Panic(t)
  /\ calls' = calls + 1
  /\ UNCHANGED <<sem, acqKind, relKind, guards, held, n0, build,
                 nAcq, nRel, parked, rt, made, dropped>>

\* Faulty variant of Unwind: unwinding does not run the guards' drop.
UnwindLeaks(t) ==
  /\ ~aborted /\ pc[t] = "unwind"
  /\ pc' = [pc EXCEPT ![t] = "panicked"]
  /\ UNCHANGED <<sem, acqKind, relKind, guards, held, unwinding, env, hist>>

\* Unwinding drops the thread's live guards one by one (lines 70-74, each
\* drop calls release); with none left the thread has terminated.
Unwind(t) ==
  /\ ~aborted /\ pc[t] = "unwind"
  /\ IF guards[t] > 0
       THEN /\ guards' = [guards EXCEPT ![t] = @ - 1]
            /\ relKind' = [relKind EXCEPT ![t] = "drop"]
            /\ pc' = [pc EXCEPT ![t] = "r52"]
            /\ dropped' = dropped + 1
       ELSE /\ pc' = [pc EXCEPT ![t] = "panicked"]
            /\ UNCHANGED <<guards, relKind, dropped>>
  /\ UNCHANGED <<sem, acqKind, held, unwinding, env, calls, nAcq, nRel,
                 parked, rt, made>>

(* ---------------------------- specification --------------------------- *)

Next ==
  \E t \in Threads :
    \/ CallAcquire(t)
    \/ CallAccess(t)
    \/ AcqLock(t)
    \/ AcqCheck(t)
    \/ AcqWait(t)
    \/ SpuriousWakeup(t)
    \/ AcqRelock(t)
    \/ AcqDecrement(t)
    \/ AcqReturn(t)
    \/ CallRelease(t)
    \/ DropGuard(t)
    \/ RelLock(t)
    \/ RelIncrement(t)
    \/ RelNotify(t)
    \/ RelReturn(t)
    \/ CriticalPanic(t)
    \/ Unwind(t)

Spec == Init /\ [][Next]_vars

(* ------------------- release only by holders of a unit ---------------- *)

\* Callers that pair every release with a unit they hold.
CallReleaseHeld(t) == held[t] > 0 /\ CallRelease(t)

InitHeld == \E n \in 0..MaxCount : New(n)

NextHeld ==
  \E t \in Threads :
    \/ CallAcquire(t)
    \/ CallAccess(t)
    \/ AcqLock(t)
    \/ AcqCheck(t)
    \/ AcqWait(t)
    \/ SpuriousWakeup(t)
    \/ AcqRelock(t)
    \/ AcqDecrement(t)
    \/ AcqReturn(t)
    \/ CallReleaseHeld(t)
    \/ DropGuard(t)
    \/ RelLock(t)
    \/ RelIncrement(t)
    \/ RelNotify(t)
    \/ RelReturn(t)
    \/ CriticalPanic(t)
    \/ Unwind(t)

SpecHeld == InitHeld /\ [][NextHeld]_vars


(* ----------------------- acquire with no release ---------------------- *)

InitNoRelease == \E n \in 0..MaxCount : New(n)

NextNoRelease ==
  \E t \in Threads :
    \/ CallAcquire(t)
    \/ CallAccess(t)
    \/ AcqLock(t)
    \/ AcqCheck(t)
    \/ AcqWait(t)
    \/ SpuriousWakeup(t)
    \/ AcqRelock(t)
    \/ AcqDecrement(t)
    \/ AcqReturn(t)

SpecNoRelease == InitNoRelease /\ [][NextNoRelease]_vars

(* ------------- one acquire and one release on a count of 0 ------------ *)

\* The thread that waits in the handshake (the spawned thread of
\* test_child_waits_parent_signals, the parent of
\* test_parent_waits_child_signals); any other thread may be the signaller.
Waiter == 1

AcqPcs == {"a41", "a42", "a43", "a43p", "a43w", "a45", "a46"}

RelPcs == {"r52", "r53", "r54", "r55"}

\* Lines 118 and 138: the waiter calls acquire (or access), once.
WaiterAcquires(t) ==
  /\ t = Waiter /\ held[t] + guards[t] = 0
  /\ (CallAcquire(t) \/ CallAccess(t))

\* Lines 122 and 134: another thread calls release, once.
SignallerReleases(t) ==
  /\ t # Waiter /\ nRel = 0 /\ \A u \in Threads : pc[u] \notin RelPcs
  /\ CallRelease(t)

InitHandshake == New(0)

NextHandshake ==
  \E t \in Threads :
    \/ WaiterAcquires(t)
    \/ SignallerReleases(t)
    \/ AcqLock(t)
    \/ AcqCheck(t)
    \/ AcqWait(t)
    \/ SpuriousWakeup(t)
    \/ AcqRelock(t)
    \/ AcqDecrement(t)
    \/ AcqReturn(t)
    \/ RelLock(t)
    \/ RelIncrement(t)
    \/ RelNotify(t)
    \/ RelReturn(t)

\* Fair scheduling: a thread that can run its next statement eventually runs
\* it, and a thread that finds the mutex free again and again eventually
\* locks it.  Nothing forces a caller to call, nor a spurious wakeup to occur.
Fairness ==
  \A t \in Threads :
    /\ SF_vars(AcqLock(t)) /\ SF_vars(AcqRelock(t)) /\ SF_vars(RelLock(t))
    /\ WF_vars(AcqCheck(t)) /\ WF_vars(AcqWait(t))
    /\ WF_vars(AcqDecrement(t)) /\ WF_vars(AcqReturn(t))
    /\ WF_vars(RelIncrement(t)) /\ WF_vars(RelNotify(t)) /\ WF_vars(RelReturn(t))

SpecHandshake == InitHandshake /\ [][NextHandshake]_vars /\ Fairness

(* ---------------- manual acquire and release, any count --------------- *)

NextManual ==
  \E t \in Threads :
    \/ CallAcquire(t)
    \/ AcqLock(t)
    \/ AcqCheck(t)
    \/ AcqWait(t)
    \/ SpuriousWakeup(t)
    \/ AcqRelock(t)
    \/ AcqDecrement(t)
    \/ AcqReturn(t)
    \/ CallRelease(t)
    \/ RelLock(t)
    \/ RelIncrement(t)
    \/ RelNotify(t)
    \/ RelReturn(t)
    \/ Unwind(t)

SpecManual == Init /\ [][NextManual]_vars

(* ----------------------- scoped access only --------------------------- *)

NextScoped ==
  \E t \in Threads :
    \/ CallAccess(t)
    \/ AcqLock(t)
    \/ AcqCheck(t)
    \/ AcqWait(t)
    \/ SpuriousWakeup(t)
    \/ AcqRelock(t)
    \/ AcqDecrement(t)
    \/ AcqReturn(t)
    \/ DropGuard(t)
    \/ RelLock(t)
    \/ RelIncrement(t)
    \/ RelNotify(t)
    \/ RelReturn(t)
    \/ CriticalPanic(t)
    \/ Unwind(t)

SpecScoped == Init /\ [][NextScoped]_vars

(* ------------- seeding releases up to the counter's maximum ----------- *)

\* The thread that seeds capacity (the parent of
\* test_child_waits_parent_signals, line 122); the other threads use the
\* semaphore.
Seeder == NumThreads

\* The seeder, holding no unit, invokes sem.release(), as long as fewer than
\* MaxSeeds increments are done or under way.
CallSeed(t) ==
  /\ t = Seeder
  /\ ~aborted /\ pc[t] = "idle" /\ held[t] = 0
  /\ nRel + Cardinality({u \in Threads : pc[u] \in {"r52", "r53"}}) < MaxSeeds
  /\ pc' = [pc EXCEPT ![t] = "r52"]
  /\ relKind' = [relKind EXCEPT ![t] = "seed"]
  /\ UNCHANGED <<sem, acqKind, guards, held, unwinding, env, hist>>

\* Lines 118 and 104: a thread other than the seeder calls acquire or access.
UserAcquires(t) == t # Seeder /\ (CallAcquire(t) \/ CallAccess(t))

\* The counts from which MaxSeeds increments reach past isize::MAX.
InitSeeded == \E n \in (IsizeMax - MaxSeeds + 1)..IsizeMax : New(n)

NextSeeded ==
  \E t \in Threads :
    \/ UserAcquires(t)
    \/ AcqLock(t)
    \/ AcqCheck(t)
    \/ AcqWait(t)
    \/ SpuriousWakeup(t)
    \/ AcqRelock(t)
    \/ AcqDecrement(t)
    \/ AcqReturn(t)
    \/ CallSeed(t)
    \/ DropGuard(t)
    \/ RelLock(t)
    \/ RelIncrement(t)
    \/ RelNotify(t)
    \/ RelReturn(t)
    \/ Unwind(t)

SpecSeeded == InitSeeded /\ [][NextSeeded]_vars

(* ------------------------ no spurious wakeups ------------------------- *)

\* The runs in which Condvar::wait returns only when notified.
NextNotified ==
  \E t \in Threads :
    \/ CallAcquire(t)
    \/ CallAccess(t)
    \/ AcqLock(t)
    \/ AcqCheck(t)
    \/ AcqWait(t)
    \/ AcqRelock(t)
    \/ AcqDecrement(t)
    \/ AcqReturn(t)
    \/ CallRelease(t)
    \/ DropGuard(t)
    \/ RelLock(t)
    \/ RelIncrement(t)
    \/ RelNotify(t)
    \/ RelReturn(t)
    \/ Unwind(t)

SpecNotified == Init /\ [][NextNotified]_vars

(* --------------- a finite workload of access/drop rounds -------------- *)

\* Accesses begun whose guard has not yet been handed to drop.
OpenRounds ==
  made - dropped + Cardinality({t \in Threads : pc[t] \in AcqPcs})

\* Lines 104 and 107: a thread begins a round, `let _g = s.access();`.  A
\* round is begun only if every round begun can also drop its guard within
\* the bound on operations.
StartRound(t) ==
  /\ guards[t] = 0
  /\ calls + OpenRounds + 2 <= MaxOps
  /\ CallAccess(t)

InitRounds == \E n \in 1..MaxCount : New(n)

NextRounds ==
  \E t \in Threads :
    \/ StartRound(t)
    \/ AcqLock(t)
    \/ AcqCheck(t)
    \/ AcqWait(t)
    \/ SpuriousWakeup(t)
    \/ AcqRelock(t)
    \/ AcqDecrement(t)
    \/ AcqReturn(t)
    \/ DropGuard(t)
    \/ RelLock(t)
    \/ RelIncrement(t)
    \/ RelNotify(t)
    \/ RelReturn(t)

\* Weakly fair scheduling: a statement that stays ready to run is run; the
\* protected section ends, so a guard that stays live is dropped.  Nothing
\* forces a thread to begin a round, nor a spurious wakeup to occur.
WeakFairness ==
  \A t \in Threads :
    /\ WF_vars(AcqLock(t)) /\ WF_vars(AcqRelock(t)) /\ WF_vars(RelLock(t))
    /\ WF_vars(AcqCheck(t)) /\ WF_vars(AcqWait(t))
    /\ WF_vars(AcqDecrement(t)) /\ WF_vars(AcqReturn(t))
    /\ WF_vars(DropGuard(t))
    /\ WF_vars(RelIncrement(t)) /\ WF_vars(RelNotify(t)) /\ WF_vars(RelReturn(t))

SpecRounds == InitRounds /\ [][NextRounds]_vars /\ WeakFairness

\* A thread that finds the mutex free again and again eventually locks it.
LockFairness ==
  \A t \in Threads :
    SF_vars(AcqLock(t)) /\ SF_vars(AcqRelock(t)) /\ SF_vars(RelLock(t))

(* ---------------------------- properties ------------------------------ *)

RECURSIVE SumOver(_, _)
SumOver(f, S) ==
  IF S = {} THEN 0
  ELSE LET x == CHOOSE y \in S : TRUE IN f[x] + SumOver(f, S \ {x})

\* Units thread t holds: taken by a completed acquire or access and not yet
\* given back by the increment of a release.
Holding(t) ==
  held[t] + guards[t]
  + (IF pc[t] \in {"r52", "r53"} /\ relKind[t] \in {"unit", "drop"} THEN 1 ELSE 0)

Holders == {t \in Threads : Holding(t) > 0}

UnitsHeld == SumOver([t \in Threads |-> Holding(t)], Threads)

\* acquire is at its decrement only with counter > 0, holding the lock under
\* which it tested the loop condition.
DecrementsOnlyWhenPositive ==
  \A t \in Threads : pc[t] = "a45" => (counter > 0 /\ lock = t)

\* A thread parked on the condition variable does not hold the lock.
ParkedHoldsNoLock == \A t \in waiters : lock # t

\* C1: acquire decrements only where counter > 0, under the lock hold of its
\* check; hence a semaphore created with N >= 0 has counter >= 0 in every
\* reachable state.
C1_CounterNeverNegative ==
  /\ DecrementsOnlyWhenPositive
  /\ n0 >= 0 => counter >= 0

\* C2: when release is only called by a thread that holds a unit, a
\* semaphore created with N >= 0 never has more than N units held, hence
\* never more than N threads holding one (N = 1: mutual exclusion).
C2_HoldersAtMostN ==
  n0 >= 0 => /\ UnitsHeld <= n0
             /\ Cardinality(Holders) <= n0

\* C2 witness: N = 2, two threads hold a guard each and a third is parked.
C2_TwoHoldersThirdParked ==
  /\ n0 = 2
  /\ \E a, b, c \in Threads :
       /\ a # b /\ a # c /\ b # c
       /\ guards[a] = 1 /\ guards[b] = 1
       /\ pc[c] = "a43p" /\ c \in waiters

\* C3: with N >= 0 and no release, at most N acquires complete, none of
\* them after parking, and a thread parks only once N have completed.
C3_FirstNWithoutParking ==
  n0 >= 0 =>
    /\ nAcq <= n0
    /\ \A t \in Threads :
         /\ pc[t] \in {"a45", "a46"} => ~parked[t]
         /\ parked[t] => nAcq = n0

\* C3 witness: N = 2, two acquires have completed and a third one is parked.
C3_ThirdParkedAfterTwo ==
  /\ n0 = 2 /\ nAcq = 2
  /\ \E t \in Threads : pc[t] = "a43p" /\ parked[t]
  /\ \E t \in Threads : pc[t] = "idle" /\ held[t] + guards[t] > 0

\* C4: no lost wakeup.  On a count of 0, once one thread has called acquire
\* and another has called release, in whatever order their steps interleave,
\* eventually both calls have returned.
C4_NoLostWakeup ==
  (/\ pc[Waiter] \in AcqPcs
   /\ nRel > 0 \/ \E t \in Threads : pc[t] \in RelPcs)
    ~> (/\ \A t \in Threads : pc[t] = "idle"
        /\ held[Waiter] + guards[Waiter] = 1
        /\ nAcq = 1 /\ nRel = 1 /\ counter = 0)

\* C4 witness: the waiter parked, was woken after the release and has taken
\* the unit.
C4_WokenWaiterTookUnit ==
  /\ n0 = 0 /\ nRel = 1
  /\ pc[Waiter] = "a45" /\ parked[Waiter]

\* C5: round trip.  While no other thread changes the counter, a thread
\* that has run one or more acquire/release pairs from a counter c > 0
\* leaves the counter at c, so that a further acquire finds it positive; in
\* the middle of a pair the counter is c - 1.
C5_RoundTrip ==
  \A t \in Threads :
    rt[t].live =>
      /\ rt[t].c > 0
      /\ counter = IF rt[t].open THEN rt[t].c - 1 ELSE rt[t].c
      /\ (pc[t] = "a42" /\ ~rt[t].open) => ~MustWait(counter)

\* C5 witness: a thread has completed two pairs in a row.
C5_TwoPairsDone ==
  \E t \in Threads : rt[t].live /\ rt[t].n = 2 /\ ~rt[t].open

LiveGuards == SumOver(guards, Threads)

\* C6: every guard constructed is live, or has been dropped exactly once,
\* and each drop is exactly one release: the guard's release is waiting for
\* the lock or about to increment, or it has incremented the counter.  A
\* thread that has left its scopes by unwinding owns no live guard.
C6_GuardReleasesOnce ==
  /\ made = LiveGuards + dropped
  /\ dropped = nRel + Cardinality({t \in Threads : pc[t] \in {"r52", "r53"}})
  /\ \A t \in Threads :
       /\ pc[t] \in RelPcs => relKind[t] = "drop"
       /\ pc[t] = "panicked" => guards[t] = 0

\* C6 witness: a protected section failed, and the unwinding dropped the
\* thread's guard, whose release has incremented the counter.
C6_ReleasedByUnwinding ==
  \E t \in Threads :
    /\ pc[t] = "panicked" /\ unwinding[t]
    /\ made = 1 /\ dropped = 1 /\ nRel = 1 /\ counter = n0

(* The semaphore as acquire and release alone use it (lines 40-55), over a  *)
(* counter c, a lock l, a wait set w, program counters p and the units u     *)
(* each thread holds: nothing in it knows of access or of guards.            *)

AR_CallAcquire(t, c, l, w, p, u) ==
  /\ p[t] = "idle"
  /\ p' = [p EXCEPT ![t] = "a41"]
  /\ UNCHANGED <<c, l, w, u>>

AR_Lock(t, c, l, w, p, u) ==
  /\ p[t] \in {"a41", "a43w"} /\ l = NoThread
  /\ l' = t
  /\ p' = [p EXCEPT ![t] = "a42"]
  /\ UNCHANGED <<c, w, u>>

AR_Check(t, c, l, w, p, u) ==
  /\ p[t] = "a42" /\ l = t
  /\ p' = [p EXCEPT ![t] = IF c <= 0 THEN "a43" ELSE "a45"]
  /\ UNCHANGED <<c, l, w, u>>

AR_Wait(t, c, l, w, p, u) ==
  /\ p[t] = "a43" /\ l = t
  /\ l' = NoThread
  /\ w' = w \cup {t}
  /\ p' = [p EXCEPT ![t] = "a43p"]
  /\ UNCHANGED <<c, u>>

AR_Wakeup(t, c, l, w, p, u) ==
  /\ p[t] = "a43p" /\ t \in w
  /\ w' = w \ {t}
  /\ p' = [p EXCEPT ![t] = "a43w"]
  /\ UNCHANGED <<c, l, u>>

AR_Decrement(t, c, l, w, p, u) ==
  /\ p[t] = "a45" /\ l = t
  /\ c' = c - 1
  /\ p' = [p EXCEPT ![t] = "a46"]
  /\ UNCHANGED <<l, w, u>>

AR_AcquireReturn(t, c, l, w, p, u) ==
  /\ p[t] = "a46" /\ l = t
  /\ l' = NoThread
  /\ p' = [p EXCEPT ![t] = "idle"]
  /\ u' = [u EXCEPT ![t] = @ + 1]
  /\ UNCHANGED <<c, w>>

AR_CallRelease(t, c, l, w, p, u) ==
  /\ p[t] = "idle" /\ u[t] > 0
  /\ u' = [u EXCEPT ![t] = @ - 1]
  /\ p' = [p EXCEPT ![t] = "r52"]
  /\ UNCHANGED <<c, l, w>>

AR_ReleaseLock(t, c, l, w, p, u) ==
  /\ p[t] = "r52" /\ l = NoThread
  /\ l' = t
  /\ p' = [p EXCEPT ![t] = "r53"]
  /\ UNCHANGED <<c, w, u>>

AR_Increment(t, c, l, w, p, u) ==
  /\ p[t] = "r53" /\ l = t
  /\ c' = c + 1
  /\ p' = [p EXCEPT ![t] = "r54"]
  /\ UNCHANGED <<l, w, u>>

AR_Notify(t, c, l, w, p, u) ==
  /\ p[t] = "r54" /\ l = t
  /\ \/ w = {} /\ w' = w /\ p' = [p EXCEPT ![t] = "r55"]
     \/ \E x \in w : w' = w \ {x} /\ p' = [p EXCEPT ![t] = "r55", ![x] = "a43w"]
  /\ UNCHANGED <<c, l, u>>

AR_ReleaseReturn(t, c, l, w, p, u) ==
  /\ p[t] = "r55" /\ l = t
  /\ l' = NoThread
  /\ p' = [p EXCEPT ![t] = "idle"]
  /\ UNCHANGED <<c, w, u>>

AR_Next(c, l, w, p, u) ==
  \E t \in Threads :
    \/ AR_CallAcquire(t, c, l, w, p, u)
    \/ AR_Lock(t, c, l, w, p, u)
    \/ AR_Check(t, c, l, w, p, u)
    \/ AR_Wait(t, c, l, w, p, u)
    \/ AR_Wakeup(t, c, l, w, p, u)
    \/ AR_Decrement(t, c, l, w, p, u)
    \/ AR_AcquireReturn(t, c, l, w, p, u)
    \/ AR_CallRelease(t, c, l, w, p, u)
    \/ AR_ReleaseLock(t, c, l, w, p, u)
    \/ AR_Increment(t, c, l, w, p, u)
    \/ AR_Notify(t, c, l, w, p, u)
    \/ AR_ReleaseReturn(t, c, l, w, p, u)

\* Thread t of the acquire/release system is not blocked: its next
\* statement can run (a parked thread runs only when woken).
AR_CanRun(t, l, p) ==
  \/ p[t] \in {"a41", "a43w", "r52"} /\ l = NoThread
  \/ p[t] \in {"a42", "a43", "a45", "a46", "r53", "r54", "r55"} /\ l = t

\* The view of a state in which a live guard is a unit its thread holds,
\* like one taken by acquire, and a thread that is unwinding or has
\* terminated is a thread that makes no call.
UnitsView == [t \in Threads |-> held[t] + guards[t]]

PcView ==
  [t \in Threads |-> IF pc[t] \in {"unwind", "panicked"} THEN "idle" ELSE pc[t]]

\* A statement of thread t inside acquire or release can run.
CanRun(t) ==
  ENABLED (\/ AcqLock(t) \/ AcqCheck(t) \/ AcqWait(t) \/ AcqRelock(t)
           \/ AcqDecrement(t)
           \/ AcqReturn(t) \/ RelLock(t) \/ RelIncrement(t) \/ RelNotify(t)
           \/ RelReturn(t))

\* C7: access and guard drop are acquire and release.  With guards viewed
\* as held units, every step of a system that uses access/drop (alone or
\* beside acquire/release) is a step of the acquire/release system, with the
\* same counter, lock, wait set and program counters; and a thread inside
\* access or inside a guard's drop is blocked exactly when the
\* acquire/release system blocks it.
C7_AccessIsAcquireRelease ==
  /\ [][AR_Next(counter, lock, waiters, PcView, UnitsView)]_<<counter, lock,
                                             waiters, PcView, UnitsView>>
  /\ [](\A t \in Threads :
          (pc[t] \in AcqPcs \cup RelPcs) =>
             (CanRun(t) <=> AR_CanRun(t, lock, PcView)))

\* C7 witness: with the only unit held by a guard, an acquire parked; the
\* guard was dropped and the acquire has taken the unit.
C7_AcquireProceedsAfterDrop ==
  /\ n0 = 1 /\ made = 1 /\ dropped = 1 /\ nRel = 1 /\ nAcq = 2
  /\ \E t \in Threads : pc[t] = "a46" /\ acqKind[t] = "acquire" /\ parked[t]

\* C8: a semaphore created with -k (k >= 1): no acquire performs its
\* decrement before k + 1 releases have incremented the counter; with k or
\* fewer releases every acquire is still before its decrement.
C8_NegativeCountOwed ==
  n0 < 0 =>
    /\ nAcq > 0 => nRel >= 1 - n0
    /\ nRel <= -n0 => (nAcq = 0 /\ \A t \in Threads : pc[t] \notin {"a45", "a46"})

\* C8 witness: created with -1, an acquire parked, and after two releases
\* it has taken the unit.
C8_AcquireAfterTwoReleases ==
  /\ n0 = -1 /\ nRel = 2 /\ nAcq = 1
  /\ \E t \in Threads : pc[t] = "a46" /\ parked[t]

\* C9: release of a semaphore at any representable counter value, isize::MAX
\* included, completes its increment and leaves the counter exactly 1
\* higher: no failure, no wrap-around.
C9_ReleaseRaisesByOne ==
  [][\A t \in Threads :
       (pc[t] = "r53" /\ pc'[t] # "r53") =>
          (pc'[t] = "r54" /\ counter' = counter + 1)]_vars

\* C10: release never blocks.  No parked thread holds the lock, and every
\* step a thread takes inside release takes it to its next statement: it
\* obtains the lock, increments, notifies and returns.
C10_ReleaseRunsToReturn ==
  /\ []ParkedHoldsNoLock
  /\ [][\A t \in Threads :
          (pc[t] \in RelPcs /\ pc'[t] # pc[t]) =>
             \/ pc[t] = "r52" /\ pc'[t] = "r53"
             \/ pc[t] = "r53" /\ pc'[t] = "r54" /\ counter' # counter
             \/ pc[t] = "r54" /\ pc'[t] = "r55"
             \/ pc[t] = "r55" /\ pc'[t] \in {"idle", "unwind"}]_vars

\* The statements at which a thread holds the lock (lines 42-46, 53-55).
LockedPcs == {"a42", "a43", "a45", "a46", "r53", "r54", "r55"}

\* The statements at which a thread asks for the lock: lock() of lines 41
\* and 52, and the re-lock of a woken wait (line 43).
LockingPcs == {"a41", "a43w", "r52"}

\* C11: lock poisoning is fatal.  The poison flag is raised by a thread that
\* fails while holding the lock, and is never cleared.  Once it is raised
\* nobody holds the lock or stands at a statement under it; no step changes
\* the counter or hands out a unit or a guard; no acquire, access or release
\* returns; and a thread that
\* asks for the lock, a woken waiter included, is never blocked and the only
\* step it can take is to fail (to start unwinding, or to abort the process
\* when it was unwinding already).
C11_PoisonIsFatal ==
  /\ [](poisoned =>
         /\ lock = NoThread
         /\ \A t \in Threads :
              /\ pc[t] \notin LockedPcs
              /\ (pc[t] \in LockingPcs /\ ~aborted) =>
                   ENABLED (AcqLock(t) \/ AcqRelock(t) \/ RelLock(t)))
  /\ [][/\ poisoned' /\ ~poisoned =>
             \E t \in Threads : lock = t /\ pc'[t] = "unwind" /\ unwinding'[t]
        /\ poisoned =>
             /\ poisoned' /\ counter' = counter /\ lock' = NoThread
             /\ nAcq' = nAcq /\ nRel' = nRel
             /\ \A t \in Threads : guards'[t] <= guards[t] /\ held'[t] <= held[t]
             /\ \A t \in Threads :
                  (pc[t] \in LockingPcs /\ pc'[t] # pc[t]) =>
                     /\ pc'[t] = "unwind" /\ unwinding'[t]
                     /\ aborted' = (aborted \/ unwinding[t])]_vars

\* C11 witness: a thread parked on a count of 0; the seeding releases then
\* overflowed the counter and poisoned the lock; the waiter woke and failed.
C11_WokenWaiterFails ==
  /\ poisoned /\ n0 = 0 /\ counter = IsizeMax
  /\ \E t \in Threads :
       /\ pc[t] = "unwind" /\ unwinding[t] /\ parked[t]
       /\ acqKind[t] \in {"acquire", "access"}

\* The threads a step moves out of the parked set.
Woken == waiters \ waiters'

\* A step of a thread inside release wakes a parked thread only at the
\* notification of line 54, which is reached from the increment alone and
\* runs under the lock, leaves the counter as the increment set it, and
\* wakes at most one thread however many are parked.
NotifiesOneUnderLock ==
  [][\A t \in Threads :
       /\ (pc[t] \in RelPcs /\ pc'[t] # pc[t]) =>
            /\ Cardinality(Woken) <= 1
            /\ Woken # {} => pc[t] = "r54"
       /\ (pc[t] # "r54" /\ pc'[t] = "r54") => pc[t] = "r53"
       /\ (pc[t] = "r54" /\ pc'[t] # "r54") =>
            /\ lock = t /\ lock' = t /\ counter' = counter
            /\ \A u \in Woken : pc[u] = "a43p" /\ pc'[u] = "a43w"]_vars

\* C12: every release increments the counter by exactly 1, then, still
\* holding the lock, notifies, which moves at most one thread out of the
\* parked set even when two or more are parked.
C12_ReleaseIncrementsAndWakesOne ==
  /\ [][\A t \in Threads :
          (pc[t] = "r53" /\ pc'[t] # "r53") =>
             (pc'[t] = "r54" /\ counter' = counter + 1 /\ nRel' = nRel + 1)]_vars
  /\ NotifiesOneUnderLock

\* C13: spurious wakeups are tolerated.  A thread that leaves the parked
\* set, notified or not, can only re-lock and test the counter again; when
\* the test finds counter <= 0 (another thread may have taken the unit since
\* the notification) it waits again, parked and without the lock, and the
\* counter is as it was.  The decrement is reached only from a test that
\* found counter > 0, and acquire returns only after its decrement.
C13_WakeupRechecks ==
  [][\A t \in Threads :
       /\ (pc[t] = "a43p" /\ pc'[t] # "a43p") =>
            pc'[t] = "a43w" /\ counter' = counter /\ nAcq' = nAcq
       /\ (pc[t] = "a43w" /\ pc'[t] # "a43w") =>
            /\ counter' = counter /\ nAcq' = nAcq
            /\ \/ pc'[t] = "a42" /\ lock' = t
               \/ pc'[t] = "unwind" /\ poisoned /\ counter > 0
       /\ (pc[t] = "a42" /\ pc'[t] # "a42") =>
            /\ counter' = counter /\ nAcq' = nAcq
            /\ pc'[t] = IF counter <= 0 THEN "a43" ELSE "a45"
       /\ (pc[t] = "a43" /\ pc'[t] # "a43") =>
            /\ counter' = counter /\ nAcq' = nAcq
            /\ pc'[t] = "a43p" /\ t \in waiters' /\ lock' = NoThread
       /\ (pc[t] # "a45" /\ pc'[t] = "a45") =>
            pc[t] = "a42" /\ counter > 0 /\ lock = t
       /\ (pc[t] # "a46" /\ pc'[t] = "a46") =>
            pc[t] = "a45" /\ counter > 0 /\ counter' = counter - 1
       /\ (pc[t] \in AcqPcs /\ pc'[t] = "idle") => pc[t] = "a46"]_vars

\* C13 witness: a thread parked on a count of 0 and was woken; the one unit
\* released since has been taken by another thread; the woken thread has
\* found the counter at 0 in its new test and is about to wait again.
C13_RecheckFindsZero ==
  /\ n0 = 0 /\ nRel = 1 /\ nAcq = 1 /\ counter = 0
  /\ \E t, u \in Threads :
       /\ t # u /\ held[u] = 1
       /\ pc[t] = "a43" /\ parked[t] /\ lock = t

\* The threads standing at a statement that runs under the lock.
InsideLock == {t \in Threads : pc[t] \in LockedPcs}

\* C14: the counter is only read and written under the lock.  A thread is
\* at a statement of lines 42-46 or 53-55 exactly when it holds the lock,
\* so at most one thread is there and a thread that is parked, asking for
\* the lock, or outside acquire and release holds none; the test of line 42
\* and every step that changes the counter are steps of the lock's holder.
C14_CounterUnderLock ==
  /\ [](/\ Cardinality(InsideLock) <= 1
        /\ \A t \in Threads : (lock = t) <=> (t \in InsideLock)
        /\ \A t \in waiters : pc[t] = "a43p" /\ lock # t)
  /\ [][/\ counter' # counter =>
             \E t \in Threads :
               /\ lock = t /\ pc[t] \in {"a45", "r53"} /\ pc'[t] \in {"a46", "r54"}
               /\ \A u \in Threads \ {t} : pc'[u] = pc[u]
        /\ \A t \in Threads :
             (pc[t] \in {"a42", "a45", "r53"} /\ pc'[t] # pc[t]) => lock = t]_vars

\* C14 witness: while one thread is parked and another is asking for the
\* lock, a third holds it at the increment of release.
C14_OneInsideOthersWait ==
  \E a, b, c \in Threads :
    /\ pc[a] = "a43p" /\ a \in waiters
    /\ pc[b] \in {"a41", "r52"}
    /\ pc[c] = "r53" /\ lock = c

\* Units in transit between the counter and a guard: an access that has
\* decremented (line 45) and not yet constructed its guard (line 64), and a
\* dropped guard whose release has not yet incremented (line 53).
InTransit ==
  Cardinality({t \in Threads : pc[t] = "a46"})
  + Cardinality({t \in Threads : pc[t] \in {"r52", "r53"}})

\* C15 as stated: with units taken only through access, in every reachable
\* state counter + (number of live guards) = initial count.
C15_CounterPlusGuards == counter + LiveGuards = n0

\* C15, amended: with units taken only through access, counter + live
\* guards + units in transit = initial count in every reachable state; so
\* counter + live guards = initial count whenever no access is between its
\* decrement and its guard and no drop is before its increment, and the
\* counter equals the initial count once, besides, no guard is live.
C15_GuardsAndTransitAccount ==
  /\ counter + LiveGuards + InTransit = n0
  /\ InTransit = 0 => counter + LiveGuards = n0
  /\ (InTransit = 0 /\ LiveGuards = 0) => (counter = n0 /\ made = dropped)

\* C15 witness: of two units one is held by a live guard and the other was
\* taken by an access that has not yet constructed its guard.
C15_GuardLiveAndUnitInTransit ==
  /\ n0 = 2 /\ counter = 0 /\ LiveGuards = 1
  /\ \E t \in Threads : pc[t] = "a46" /\ acqKind[t] = "access"

\* Thread t is waiting in acquire: it has parked in its current call and
\* has not passed the test of line 42 since.
Waiting(t) == parked[t] /\ pc[t] \in {"a42", "a43", "a43p", "a43w"}

\* Thread u has run release/acquire rounds on the only unit: it took the
\* unit from a counter of 1, gave it back and took it again, one or more
\* times, and no other thread changed the counter meanwhile.
Competes(u) == rt[u].live /\ rt[u].c = 1 /\ rt[u].n >= 1 /\ rt[u].open

C17_CounterConservation ==
  /\ []((build = "undetermined" /\ ~poisoned) => counter = n0 + nRel - nAcq)
  /\ [][\A t \in Threads :
          (pc'[t] # pc[t]
           /\ ~(pc[t] = "a45" /\ pc'[t] = "a46")
           /\ ~(pc[t] = "r53" /\ pc'[t] = "r54")) =>
             (counter' = counter /\ nAcq' = nAcq /\ nRel' = nRel)]_vars

\* C17 witness: from a count of 0 an acquire waited, two releases and the
\* woken acquire's decrement have completed, and the counter is 0 + 2 - 1.
C17_TwoUpOneDown ==
  /\ n0 = 0 /\ nRel = 2 /\ nAcq = 1 /\ counter = 1 /\ build = "undetermined"
  /\ \E t \in Threads : pc[t] = "a46" /\ parked[t]

\* Threads that were notified and have not yet tested the counter again:
\* they are re-locking inside Condvar::wait.
Notified == {t \in Threads : pc[t] = "a43w"}

Min(a, b) == IF a <= b THEN a ELSE b

\* C18: no stranded waiter.  When wait returns only on notification, in
\* every state in which the lock is free, the counter is positive and some
\* thread is parked, at least min(counter, parked + notified) threads have
\* been notified and are still to test the counter; in particular at least
\* one thread is due to wake.
C18_NoStrandedWaiter ==
  (lock = NoThread /\ counter > 0 /\ waiters # {}) =>
     /\ Cardinality(Notified)
          >= Min(counter, Cardinality(waiters) + Cardinality(Notified))
     /\ Notified # {}

\* C18 witness: two threads parked on a count of 0; a release has made one
\* unit available and woken one of them; the release has returned and the
\* other is still parked.
C18_OneWokenOneParked ==
  /\ n0 = 0 /\ counter = 1 /\ lock = NoThread /\ nRel = 1 /\ nAcq = 0
  /\ Cardinality(waiters) = 1 /\ Cardinality(Notified) = 1

\* Every round begun has finished: no thread is inside access or drop, no
\* guard is live, and the counter is back at the initial count.
RoundsDone ==
  /\ \A t \in Threads : pc[t] = "idle" /\ guards[t] = 0
  /\ made = dropped
  /\ counter = n0

\* C19 as stated: for N >= 1 and a finite workload of access / protected
\* section / drop rounds, under weakly fair scheduling every thread
\* eventually finishes its rounds and the counter ends at N.
C19_RoundsFinish == <>[]RoundsDone

\* C19, amended: the same holds under scheduling that is, besides, strongly
\* fair for taking the lock.
C19_RoundsFinishLockFair == LockFairness => <>[]RoundsDone

\* C19 witness: two rounds were run on a single unit; both guards have
\* been dropped, every thread is outside access and drop, and the counter
\* is 1 again.
C19_TwoRoundsFinished ==
  /\ n0 = 1 /\ made = 2 /\ dropped = 2 /\ nRel = 2 /\ nAcq = 2
  /\ RoundsDone

====
